---- MODULE Spec2Model ----
(***************************************************************************)
(* Travel route finder: the weighted undirected city graph built by        *)
(* graph_module.build_graph_from_df and the queries of pathfinder.py and   *)
(* mst.py that run over it (BFS, DFS, Dijkstra, Bellman-Ford, Kruskal).    *)
(* City labels are positive integers; label 0 is a city that is in no      *)
(* graph.                                                                  *)
(***************************************************************************)
EXTENDS Integers, Sequences, FiniteSets, TLC

\* ------------------------------------------------------------------ bounds
\* cities of the graphs the shortest-path and spanning-tree calls run on
NumNodes == 3
\* cities of the graphs the traversals run on
TravNodes == 4
\* largest edge weight (and largest magnitude of a matrix cell)
MaxW == 2

\* float('inf'), the distance pathfinder.py returns when there is no path
Inf == 1000000

Nodes == 1..NumNodes
\* the labels a caller may pass: the cities and one that is in no graph
Labels == Nodes \cup {0}
Pairs == {p \in Nodes \X Nodes : p[1] < p[2]}
TravCities == 1..TravNodes
TravLabels == TravCities \cup {0}

\* ------------------------------------------------------------ sequences
Last(s) == s[Len(s)]

RECURSIVE SeqSum(_)
SeqSum(s) == IF s = <<>> THEN 0 ELSE Head(s) + SeqSum(Tail(s))

Range(s) == {s[i] : i \in 1..Len(s)}

NoDup(s) == \A i, j \in 1..Len(s) : i # j => s[i] # s[j]

Min(S) == CHOOSE x \in S : \A y \in S : x <= y

\* the elements of a set of integers, ascending
RECURSIVE Ascending(_)
Ascending(S) == IF S = {} THEN <<>> ELSE <<Min(S)>> \o Ascending(S \ {Min(S)})

\* ---------------------------------------------------------------- graph
\* nx.Graph: the node set and the weight of every edge, keyed by the ordered
\* pair <<a, b>> with a < b.
EmptyGraph == [nodes |-> {}, wt |-> <<>>]

Edges(G) == DOMAIN G.wt

Key(u, v) == IF u < v THEN <<u, v>> ELSE <<v, u>>

HasEdge(G, u, v) == Key(u, v) \in Edges(G)

weight(G, u, v) == G.wt[Key(u, v)]

\* G.neighbors(u): the adjacency of u in insertion order. build_graph_from_df
\* adds the edges row by row, left to right, so every adjacency is ascending.
neighbors(G, u) == Ascending({v \in G.nodes : v # u /\ HasEdge(G, u, v)})

\* G.edges(): every edge once, by first endpoint in node order, then by the
\* adjacency order of that endpoint.
RECURSIVE EdgeSeqFrom(_, _)
EdgeSeqFrom(G, us) ==
    IF us = <<>> THEN <<>>
    ELSE LET u == Head(us)
             later == Ascending({v \in G.nodes : v > u /\ HasEdge(G, u, v)})
         IN [i \in 1..Len(later) |-> <<u, later[i]>>] \o EdgeSeqFrom(G, Tail(us))

edges(G) == EdgeSeqFrom(G, Ascending(G.nodes))

\* the nodes connected to s by a walk over the edges in E
RECURSIVE Grow(_, _)
Grow(E, R) ==
    LET R2 == R \cup {v \in UNION {{e[1], e[2]} : e \in E} :
                        \E u \in R : Key(u, v) \in E}
    IN IF R2 = R THEN R ELSE Grow(E, R2)

Reach(E, s) == Grow(E, {s})

Reachable(G, s) == Reach(Edges(G), s)

\* ------------------------------------------------------------- outcomes
\* What a call produces: the exception it raises ("none" when it returns)
\* and the (length, path) pair it returns.
Returned(d, p) == [exc |-> "none", dist |-> d, path |-> p]
Raised(e) == [exc |-> e, dist |-> 0, path |-> <<>>]

\* ------------------------------------------------------------- Dijkstra
\* heappop: the fringe entry (distance, counter, node) that is least by
\* distance, then by counter.
HeapMin(fringe) ==
    CHOOSE x \in fringe : \A y \in fringe :
        x[1] < y[1] \/ (x[1] = y[1] /\ x[2] <= y[2])

\* DijkstraRelax with the bug of never lowering the distance of a node that
\* is already on the fringe
RECURSIVE DijkstraRelaxNoDecrease(_, _, _, _)
DijkstraRelaxNoDecrease(G, v, us, st) ==
    IF us = <<>> THEN st
    ELSE LET u == Head(us)
             vu_dist == st.dist[v] + weight(G, v, u)
         IN IF u \in DOMAIN st.dist \/ u \in DOMAIN st.seen
            THEN DijkstraRelaxNoDecrease(G, v, Tail(us), st)
            ELSE DijkstraRelaxNoDecrease(G, v, Tail(us),
                   [st EXCEPT !.seen = (u :> vu_dist) @@ st.seen,
                              !.fringe = st.fringe \cup {<<vu_dist, st.c, u>>},
                              !.c = st.c + 1,
                              !.paths = (u :> Append(st.paths[v], u)) @@ st.paths])

\* the for-loop of _dijkstra_multisource over the neighbours us of the node
\* v that was just finalised
RECURSIVE DijkstraRelax(_, _, _, _)
DijkstraRelax(G, v, us, st) ==
    IF us = <<>> THEN st
    ELSE LET u == Head(us)
             vu_dist == st.dist[v] + weight(G, v, u)
         IN IF u \in DOMAIN st.dist
            THEN IF vu_dist < st.dist[u]
                 THEN [st EXCEPT !.exc = "ValueError"]
                 ELSE DijkstraRelax(G, v, Tail(us), st)
            ELSE IF u \notin DOMAIN st.seen \/ vu_dist < st.seen[u]
                 THEN DijkstraRelax(G, v, Tail(us),
                        [st EXCEPT !.seen = (u :> vu_dist) @@ st.seen,
                                   !.fringe = st.fringe \cup {<<vu_dist, st.c, u>>},
                                   !.c = st.c + 1,
                                   !.paths = (u :> Append(st.paths[v], u)) @@ st.paths])
                 ELSE DijkstraRelax(G, v, Tail(us), st)

\* the while-loop of _dijkstra_multisource
RECURSIVE DijkstraLoop(_, _, _)
DijkstraLoop(G, target, st) ==
    IF st.fringe = {} \/ st.exc # "none" THEN st
    ELSE LET top == HeapMin(st.fringe)
             d == top[1]
             v == top[3]
             popped == [st EXCEPT !.fringe = st.fringe \ {top}]
         IN IF v \in DOMAIN st.dist THEN DijkstraLoop(G, target, popped)
            ELSE LET fin == [popped EXCEPT !.dist = (v :> d) @@ st.dist]
                 IN IF v = target THEN fin
                    ELSE DijkstraLoop(G, target,
                                      DijkstraRelax(G, v, neighbors(G, v), fin))

\* nx.single_source_dijkstra(G, source, target, weight='weight')
single_source_dijkstra(G, source, target) ==
    IF source \notin G.nodes THEN Raised("NodeNotFound")
    ELSE IF target = source THEN Returned(0, <<target>>)
    ELSE LET st == DijkstraLoop(G, target,
                     [exc |-> "none",
                      dist |-> <<>>,
                      seen |-> (source :> 0),
                      paths |-> (source :> <<source>>),
                      fringe |-> {<<0, 0, source>>},
                      c |-> 1])
         IN IF st.exc # "none" THEN Raised(st.exc)
            ELSE IF target \in DOMAIN st.dist
                 THEN Returned(st.dist[target], st.paths[target])
                 ELSE Raised("NetworkXNoPath")

\* pathfinder.dijkstra_shortest_path: only NetworkXNoPath is caught
dijkstra_shortest_path(G, source, target) ==
    LET r == single_source_dijkstra(G, source, target)
    IN IF r.exc = "NetworkXNoPath" THEN Returned(Inf, <<>>) ELSE r

\* --------------------------------------------------------- Bellman-Ford
\* dist.get(v, inf)
DistGet(dist, v) == IF v \in DOMAIN dist THEN dist[v] ELSE Inf

\* the for-loop of _inner_bellman_ford over the neighbours vs of the node u
\* that was just taken off the queue; dist_u is dist[u] read before the loop
RECURSIVE BellmanFordRelax(_, _, _, _, _)
BellmanFordRelax(G, u, dist_u, vs, st) ==
    IF vs = <<>> \/ st.negative_cycle THEN st
    ELSE LET v == Head(vs)
             dist_v == dist_u + weight(G, u, v)
         IN IF dist_v < DistGet(st.dist, v)
            THEN IF v \in Range(st.recent_update[u])
                 THEN [st EXCEPT !.negative_cycle = TRUE]
                 ELSE LET ru == IF v \in DOMAIN st.pred_edge /\ st.pred_edge[v] = u
                                THEN st.recent_update[u] ELSE <<u, v>>
                          count_v == (IF v \in DOMAIN st.count THEN st.count[v] ELSE 0) + 1
                          queued == IF v \in st.in_q THEN st
                                    ELSE [st EXCEPT !.q = Append(st.q, v),
                                                    !.in_q = st.in_q \cup {v},
                                                    !.count = (v :> count_v) @@ st.count]
                      IN IF v \notin st.in_q /\ count_v = Cardinality(G.nodes)
                         THEN [st EXCEPT !.negative_cycle = TRUE]
                         ELSE BellmanFordRelax(G, u, dist_u, Tail(vs),
                                [queued EXCEPT
                                   !.recent_update = (v :> ru) @@ st.recent_update,
                                   !.dist = (v :> dist_v) @@ st.dist,
                                   !.pred = (v :> <<u>>) @@ st.pred,
                                   !.pred_edge = (v :> u) @@ st.pred_edge])
            ELSE IF v \in DOMAIN st.dist /\ dist_v = st.dist[v]
                 THEN BellmanFordRelax(G, u, dist_u, Tail(vs),
                        [st EXCEPT !.pred = (v :> Append(st.pred[v], u)) @@ st.pred])
                 ELSE BellmanFordRelax(G, u, dist_u, Tail(vs), st)

\* the while-loop of _inner_bellman_ford: a node is relaxed only when none
\* of its predecessors is still queued
RECURSIVE BellmanFordLoop(_, _)
BellmanFordLoop(G, st) ==
    IF st.q = <<>> \/ st.negative_cycle THEN st
    ELSE LET u == Head(st.q)
             popped == [st EXCEPT !.q = Tail(st.q), !.in_q = st.in_q \ {u}]
         IN IF \A i \in 1..Len(st.pred[u]) : st.pred[u][i] \notin popped.in_q
            THEN BellmanFordLoop(G,
                    BellmanFordRelax(G, u, st.dist[u], neighbors(G, u), popped))
            ELSE BellmanFordLoop(G, popped)

\* _build_paths_from_predecessors, up to its first yield: a depth-first walk
\* back over the predecessor lists; stack holds <<node, next index>> pairs
RECURSIVE BuildPath(_, _, _, _)
BuildPath(source, pred, stack, seen) ==
    IF stack = <<>> THEN Raised("StopIteration")
    ELSE LET top == Len(stack)
             node == stack[top][1]
             i == stack[top][2]
         IN IF node = source
            THEN Returned(0, [k \in 1..top |-> stack[top + 1 - k][1]])
            ELSE IF Len(pred[node]) > i
                 THEN LET next == pred[node][i + 1]
                          bumped == [stack EXCEPT ![top] = <<node, i + 1>>]
                      IN IF next \in seen
                         THEN BuildPath(source, pred, bumped, seen)
                         ELSE BuildPath(source, pred, Append(bumped, <<next, 0>>),
                                        seen \cup {next})
                 ELSE BuildPath(source, pred, SubSeq(stack, 1, top - 1),
                                seen \ {node})

\* nx.single_source_bellman_ford(G, source, target, weight='weight')
single_source_bellman_ford(G, source, target) ==
    IF source = target
    THEN IF source \notin G.nodes THEN Raised("NodeNotFound")
         ELSE Returned(0, <<source>>)
    ELSE IF source \notin G.nodes THEN Raised("NodeNotFound")
    ELSE LET st == BellmanFordLoop(G,
                     [negative_cycle |-> FALSE,
                      dist |-> (source :> 0),
                      pred |-> (source :> <<>>),
                      pred_edge |-> <<>>,
                      recent_update |-> (source :> <<>>),
                      count |-> <<>>,
                      q |-> <<source>>,
                      in_q |-> {source}])
         IN IF st.negative_cycle THEN Raised("NetworkXUnbounded")
            ELSE IF target \notin DOMAIN st.pred THEN Raised("NetworkXNoPath")
            ELSE LET p == BuildPath(source, st.pred, <<<<target, 0>>>>, {target})
                 IN IF p.exc # "none" THEN p
                    ELSE Returned(st.dist[target], p.path)

\* bellman_ford_shortest_path with the bug of not passing the weight
\* attribute, so that every edge counts 1
bellman_ford_hops(G, source, target) ==
    LET r == single_source_bellman_ford(
                 [nodes |-> G.nodes, wt |-> [e \in Edges(G) |-> 1]], source, target)
    IN IF r.exc # "none" THEN Returned(Inf, <<>>) ELSE r

\* pathfinder.bellman_ford_shortest_path: every exception is caught
bellman_ford_shortest_path(G, source, target) ==
    LET r == single_source_bellman_ford(G, source, target)
    IN IF r.exc # "none" THEN Returned(Inf, <<>>) ELSE r

\* -------------------------------------------------------------- Kruskal
\* UnionFind.__getitem__: the root of x
RECURSIVE Find(_, _)
Find(parents, x) == IF parents[x] = x THEN x ELSE Find(parents, parents[x])

\* UnionFind.union(u, v): the lighter root is hung under the heavier one
Union(uf, u, v) ==
    LET ru == Find(uf.parents, u)
        rv == Find(uf.parents, v)
        root == IF uf.weights[rv] > uf.weights[ru] THEN rv ELSE ru
        r == IF root = ru THEN rv ELSE ru
    IN IF ru = rv THEN uf
       ELSE [parents |-> [uf.parents EXCEPT ![r] = root],
             weights |-> [uf.weights EXCEPT ![root] = uf.weights[root] + uf.weights[r]]]

\* sorted(edges, key=weight): a stable sort, so edges of equal weight keep
\* the order of G.edges()
RECURSIVE InsertByWeight(_, _, _)
InsertByWeight(G, e, sorted) ==
    IF sorted = <<>> THEN <<e>>
    ELSE IF G.wt[e] < G.wt[Head(sorted)] THEN <<e>> \o sorted
    ELSE <<Head(sorted)>> \o InsertByWeight(G, e, Tail(sorted))

\* SortByWeight with the bug of not sorting at all
Unsorted(G, es) == es

RECURSIVE SortByWeight(_, _)
SortByWeight(G, es) ==
    IF es = <<>> THEN <<>>
    ELSE InsertByWeight(G, Last(es), SortByWeight(G, SubSeq(es, 1, Len(es) - 1)))

\* kruskal_mst_edges: an edge is kept when its endpoints are in different
\* subtrees, and the subtrees are then joined
RECURSIVE KruskalLoop(_, _, _)
KruskalLoop(es, uf, kept) ==
    IF es = <<>> THEN kept
    ELSE LET e == Head(es)
         IN IF Find(uf.parents, e[1]) # Find(uf.parents, e[2])
            THEN KruskalLoop(Tail(es), Union(uf, e[1], e[2]), kept \cup {e})
            ELSE KruskalLoop(Tail(es), uf, kept)

\* kruskal_mst_edges with the bug of growing one tree from the first node
\* only, so that the other components get no edge
kruskal_first_component(G) ==
    LET first == Reachable(G, Min(G.nodes))
        es == SortByWeight(G, edges(G))
        own == {i \in 1..Len(es) : es[i][1] \in first}
        ownSeq == [k \in 1..Cardinality(own) |->
                     es[CHOOSE i \in own : Cardinality({j \in own : j < i}) = k - 1]]
    IN KruskalLoop(ownSeq,
                   [parents |-> [n \in G.nodes |-> n], weights |-> [n \in G.nodes |-> 1]],
                   {})

kruskal_mst_edges(G) ==
    KruskalLoop(SortByWeight(G, edges(G)),
                [parents |-> [n \in G.nodes |-> n], weights |-> [n \in G.nodes |-> 1]],
                {})

\* nx.minimum_spanning_tree(G, weight='weight', algorithm='kruskal'): a graph
\* on the nodes of G with the kept edges and their weights
minimum_spanning_tree(G) ==
    [nodes |-> G.nodes, wt |-> [e \in kruskal_mst_edges(G) |-> G.wt[e]]]

RECURSIVE SumWeights(_, _)
SumWeights(T, es) ==
    IF es = <<>> THEN 0 ELSE T.wt[Head(es)] + SumWeights(T, Tail(es))

\* mst.build_mst
build_mst(G) ==
    LET T == minimum_spanning_tree(G)
    IN [T |-> T, total_weight |-> SumWeights(T, edges(T))]

\* ------------------------------------------------------ graph_module.py
\* The distance matrix read from the CSV file: one cell per pair of cities
\* (the loop of build_graph_from_df reads the cells right of the diagonal).
Cells == (0 - MaxW)..MaxW
Matrices == [Pairs -> Cells]

\* graph_module.build_graph_from_df: every city is a node; a cell w becomes
\* an edge only if w > 0. The cells are whole numbers, which float(w) keeps.
build_graph_from_df(m) ==
    [nodes |-> Nodes, wt |-> [p \in {x \in Pairs : m[x] > 0} |-> m[p]]]

\* the graphs on the cities V whose edge weights are drawn from W
GraphsOver(V, W) ==
    {[nodes |-> V, wt |-> f] :
        f \in UNION {[E -> W] : E \in SUBSET {p \in V \X V : p[1] < p[2]}}}

NonNegative(G) == \A e \in Edges(G) : G.wt[e] >= 0

\* --------------------------------------------------------------- state
VARIABLES
    df,       \* the distance matrix, or <<>> when the graph was given directly
    G,        \* the graph the queries run on
    pc,       \* which call is in progress or has finished
    args,     \* the arguments of that call
    res,      \* what the call returned or raised
    visited,  \* bfs_traversal / dfs_traversal: the visitation order so far
    q,        \* bfs_traversal: the FIFO frontier
    seen,     \* bfs_traversal: the nodes already scheduled
    stack     \* dfs_traversal: the active calls of dfs, <<node, next neighbour>>

vars == <<df, G, pc, args, res, visited, q, seen, stack>>

NoRes == Raised("none")

\* ------------------------------------------------------- shortest paths
CallDijkstra(s, t) ==
    /\ pc = "idle"
    /\ pc' = "dijkstra"
    /\ args' = <<s, t>>
    /\ res' = dijkstra_shortest_path(G, s, t)
    /\ UNCHANGED <<df, G, visited, q, seen, stack>>

CallBellmanFord(s, t) ==
    /\ pc = "idle"
    /\ pc' = "bellman_ford"
    /\ args' = <<s, t>>
    /\ res' = bellman_ford_shortest_path(G, s, t)
    /\ UNCHANGED <<df, G, visited, q, seen, stack>>

CallBuildMst ==
    /\ pc = "idle"
    /\ pc' = "mst"
    /\ res' = build_mst(G)
    /\ UNCHANGED <<df, G, args, visited, q, seen, stack>>

\* ------------------------------------------------------------------ BFS
\* bfs_traversal up to the while-loop
BfsStart(s) ==
    /\ pc = "idle"
    /\ pc' = "bfs"
    /\ args' = <<s>>
    /\ visited' = <<>>
    /\ q' = <<s>>
    /\ seen' = {s}
    /\ UNCHANGED <<df, G, res, stack>>

\* BfsScan with the bug of queueing a neighbour without adding it to seen
RECURSIVE BfsScanNoSeen(_, _)
BfsScanNoSeen(vs, st) ==
    IF vs = <<>> THEN st
    ELSE IF Head(vs) \notin st.seen
         THEN BfsScanNoSeen(Tail(vs), [seen |-> st.seen, q |-> Append(st.q, Head(vs))])
         ELSE BfsScanNoSeen(Tail(vs), st)

\* the for-loop of bfs_traversal over the neighbours vs of u
RECURSIVE BfsScan(_, _)
BfsScan(vs, st) ==
    IF vs = <<>> THEN st
    ELSE IF Head(vs) \notin st.seen
         THEN BfsScan(Tail(vs), [seen |-> st.seen \cup {Head(vs)},
                                 q |-> Append(st.q, Head(vs))])
         ELSE BfsScan(Tail(vs), st)

\* one iteration of the while-loop; G.neighbors raises NetworkXError for a
\* node that is not in the graph
BfsStep ==
    /\ pc = "bfs"
    /\ q # <<>>
    /\ LET u == Head(q)
       IN /\ visited' = Append(visited, u)
          /\ IF u \in G.nodes
             THEN LET st == BfsScan(neighbors(G, u), [seen |-> seen, q |-> Tail(q)])
                  IN /\ q' = st.q
                     /\ seen' = st.seen
                     /\ UNCHANGED <<pc, res>>
             ELSE /\ pc' = "bfs_raised"
                  /\ res' = Raised("NetworkXError")
                  /\ q' = Tail(q)
                  /\ UNCHANGED seen
    /\ UNCHANGED <<df, G, args, stack>>

BfsReturn ==
    /\ pc = "bfs"
    /\ q = <<>>
    /\ pc' = "bfs_done"
    /\ res' = Returned(0, visited)
    /\ UNCHANGED <<df, G, args, visited, q, seen, stack>>

\* ------------------------------------------------------------------ DFS
\* dfs_traversal up to the first neighbour of start: dfs(start) appends
\* start and asks for its neighbours
DfsStart(s) ==
    /\ pc = "idle"
    /\ args' = <<s>>
    /\ visited' = <<s>>
    /\ IF s \in G.nodes
       THEN /\ pc' = "dfs"
            /\ stack' = <<<<s, 1>>>>
            /\ UNCHANGED res
       ELSE /\ pc' = "dfs_raised"
            /\ res' = Raised("NetworkXError")
            /\ UNCHANGED stack
    /\ UNCHANGED <<df, G, q, seen>>

\* DfsStep with the bug of returning from dfs(u) right after the first
\* recursive call
DfsStepFirstChildOnly ==
    /\ pc = "dfs"
    /\ stack # <<>>
    /\ LET top == Len(stack)
           u == stack[top][1]
           i == stack[top][2]
           vs == neighbors(G, u)
       IN IF i > Len(vs)
          THEN /\ stack' = SubSeq(stack, 1, top - 1)
               /\ UNCHANGED visited
          ELSE LET v == vs[i]
               IN IF v \notin Range(visited)
                  THEN /\ visited' = Append(visited, v)
                       /\ stack' = Append([stack EXCEPT ![top] = <<u, Len(vs) + 1>>],
                                          <<v, 1>>)
                  ELSE /\ stack' = [stack EXCEPT ![top] = <<u, i + 1>>]
                       /\ UNCHANGED visited
    /\ UNCHANGED <<df, G, pc, args, res, q, seen>>

\* one step of the innermost active dfs(u): take the next neighbour v and
\* call dfs(v) if v is not in visited, or return when the neighbours are
\* exhausted
DfsStep ==
    /\ pc = "dfs"
    /\ stack # <<>>
    /\ LET top == Len(stack)
           u == stack[top][1]
           i == stack[top][2]
           vs == neighbors(G, u)
       IN IF i > Len(vs)
          THEN /\ stack' = SubSeq(stack, 1, top - 1)
               /\ UNCHANGED visited
          ELSE LET v == vs[i]
                   advanced == [stack EXCEPT ![top] = <<u, i + 1>>]
               IN IF v \notin Range(visited)
                  THEN /\ visited' = Append(visited, v)
                       /\ stack' = Append(advanced, <<v, 1>>)
                  ELSE /\ stack' = advanced
                       /\ UNCHANGED visited
    /\ UNCHANGED <<df, G, pc, args, res, q, seen>>

DfsReturn ==
    /\ pc = "dfs"
    /\ stack = <<>>
    /\ pc' = "dfs_done"
    /\ res' = Returned(0, visited)
    /\ UNCHANGED <<df, G, args, visited, q, seen, stack>>

\* ------------------------------------------------------- construction
\* run() of app.py up to the menu: the matrix is loaded and the graph built
BuildGraph ==
    /\ pc = "load"
    /\ pc' = "idle"
    /\ G' = build_graph_from_df(df)
    /\ UNCHANGED <<df, args, res, visited, q, seen, stack>>

\* ------------------------------------------------------- specifications
Fresh ==
    /\ args = <<>> /\ res = NoRes
    /\ visited = <<>> /\ q = <<>> /\ seen = {} /\ stack = <<>>

\* Shortest paths and spanning trees over every graph with weights 0..MaxW,
\* queried between cities of the graph.
Init ==
    /\ df = <<>>
    /\ G \in GraphsOver(Nodes, 0..MaxW)
    /\ pc = "idle"
    /\ Fresh

Next ==
    \/ \E s, t \in Nodes : CallDijkstra(s, t)
    \/ \E s, t \in Nodes : CallBellmanFord(s, t)
    \/ CallBuildMst

Spec == Init /\ [][Next]_vars

\* The same calls made directly on any nx.Graph: the weights may be negative
\* and the labels may be absent from the graph.
InitAny ==
    /\ df = <<>>
    /\ G \in GraphsOver(Nodes, Cells)
    /\ pc = "idle"
    /\ Fresh

NextAny ==
    \/ \E s, t \in Labels : CallDijkstra(s, t)
    \/ \E s, t \in Labels : CallBellmanFord(s, t)
    \/ CallBuildMst

SpecAny == InitAny /\ [][NextAny]_vars

\* The traversals, which never read a weight: every graph with unit weights.
InitTraversal ==
    /\ df = <<>>
    /\ G \in GraphsOver(TravCities, {1})
    /\ pc = "idle"
    /\ Fresh

NextTraversal ==
    \/ \E s \in TravLabels : BfsStart(s)
    \/ BfsStep
    \/ BfsReturn
    \/ \E s \in TravLabels : DfsStart(s)
    \/ DfsStep
    \/ DfsReturn

SpecTraversal == InitTraversal /\ [][NextTraversal]_vars

\* Graph construction from every distance matrix with cells -MaxW..MaxW.
InitBuild ==
    /\ df \in Matrices
    /\ G = EmptyGraph
    /\ pc = "load"
    /\ Fresh

NextBuild ==
    \/ BuildGraph
    \/ CallBuildMst

SpecBuild == InitBuild /\ [][NextBuild]_vars

\* ============================================================ properties
Source == args[1]
Target == args[2]

Connected(G0) == \A u \in G0.nodes : Reachable(G0, u) = G0.nodes

Components(G0) == {Reachable(G0, u) : u \in G0.nodes}

IsNegativeEdge(G0, e) == G0.wt[e] < 0

\* p walks over edges of G0
IsPath(G0, p) == \A i \in 1..(Len(p) - 1) : HasEdge(G0, p[i], p[i + 1])

PathWeight(G0, p) == SeqSum([i \in 1..(Len(p) - 1) |-> weight(G0, p[i], p[i + 1])])

\* every simple path of G0 that extends p to t
RECURSIVE SimplePaths(_, _, _)
SimplePaths(G0, p, t) ==
    IF Last(p) = t THEN {p}
    ELSE UNION {SimplePaths(G0, Append(p, v), t) :
                  v \in {x \in G0.nodes : HasEdge(G0, Last(p), x) /\ x \notin Range(p)}}

\* the number of edges on a fewest-edge path to v from the set R, which is
\* k edges away from the start (v is reachable)
RECURSIVE HopFrom(_, _, _, _)
HopFrom(G0, R, v, k) ==
    IF v \in R THEN k
    ELSE HopFrom(G0, R \cup {x \in G0.nodes : \E u \in R : HasEdge(G0, u, x)}, v, k + 1)

Hop(G0, s, v) == HopFrom(G0, {s}, v, 0)

\* the spanning trees of a connected G0: the sets of |nodes| - 1 edges that
\* connect every node
SpanningTrees(G0) ==
    {S \in SUBSET Edges(G0) :
        /\ Cardinality(S) = Cardinality(G0.nodes) - 1
        /\ \A u \in G0.nodes : Reach(S, u) = G0.nodes}

RECURSIVE SetWeight(_, _)
SetWeight(G0, S) ==
    IF S = {} THEN 0
    ELSE LET e == CHOOSE x \in S : TRUE IN G0.wt[e] + SetWeight(G0, S \ {e})

\* ------------------------------------------------------------------- C1
\* C1: called with a start node of the graph, bfs_traversal and
\* dfs_traversal each return a sequence that starts with the start node,
\* holds every node reachable from it exactly once, and holds no other node.
C1_TraversalVisitsReachableOnce ==
    /\ (args # <<>> /\ Source \in G.nodes) => pc \notin {"bfs_raised", "dfs_raised"}
    /\ (pc \in {"bfs_done", "dfs_done"} /\ Source \in G.nodes) =>
          /\ res.exc = "none"
          /\ res.path # <<>>
          /\ Head(res.path) = Source
          /\ NoDup(res.path)
          /\ Range(res.path) = Reachable(G, Source)

\* a depth-first traversal that returned three cities and left one out
C1_Witness ==
    /\ pc = "dfs_done"
    /\ Source \in G.nodes
    /\ Len(res.path) = 3
    /\ Range(res.path) # G.nodes

\* ------------------------------------------------------------------ C10
\* C10: while bfs_traversal runs from a start node of the graph, the
\* frontier q holds only nodes of seen, each at most once, and the hop
\* distance from start never decreases along the visitation order.
C10_BfsLevelOrder ==
    (pc \in {"bfs", "bfs_done"} /\ Source \in G.nodes) =>
        /\ Range(q) \subseteq seen
        /\ NoDup(q)
        /\ \A i, j \in 1..Len(visited) :
              i < j => Hop(G, Source, visited[i]) <= Hop(G, Source, visited[j])
        /\ pc = "bfs_done" => res.path = visited

\* a finished breadth-first traversal over three levels, two cities on one
C10_Witness ==
    /\ pc = "bfs_done"
    /\ Source \in G.nodes
    /\ Len(res.path) = 4
    /\ Hop(G, Source, res.path[4]) = 2

\* ------------------------------------------------------------------- C4
\* C4: on a graph with no negative weight, for source and target in the
\* graph, dijkstra_shortest_path and bellman_ford_shortest_path return the
\* same distance.
C4_DijkstraAgreesWithBellmanFord ==
    (pc \in {"dijkstra", "bellman_ford"} /\ NonNegative(G)
        /\ Source \in G.nodes /\ Target \in G.nodes) =>
        /\ res.exc = "none"
        /\ res.dist = (IF pc = "dijkstra"
                       THEN bellman_ford_shortest_path(G, Source, Target)
                       ELSE dijkstra_shortest_path(G, Source, Target)).dist

\* Bellman-Ford found a two-edge route that is shorter than the direct edge
C4_Witness ==
    /\ pc = "bellman_ford"
    /\ NonNegative(G)
    /\ Len(res.path) = 3
    /\ HasEdge(G, Source, Target)
    /\ res.dist < weight(G, Source, Target)

\* ------------------------------------------------------------------- C5
\* C5: on a graph with no negative weight and a target reachable from the
\* source, dijkstra_shortest_path returns a path from source to target over
\* edges of the graph whose weights sum to the returned distance, and no
\* path from source to target is lighter; for source = target it returns
\* distance 0 and the path [source].
C5_DijkstraShortest ==
    (pc = "dijkstra" /\ NonNegative(G) /\ Source \in G.nodes
        /\ Target \in Reachable(G, Source)) =>
        /\ res.exc = "none"
        /\ res.path # <<>>
        /\ Head(res.path) = Source
        /\ Last(res.path) = Target
        /\ Range(res.path) \subseteq G.nodes
        /\ IsPath(G, res.path)
        /\ PathWeight(G, res.path) = res.dist
        /\ \A p \in SimplePaths(G, <<Source>>, Target) : res.dist <= PathWeight(G, p)
        /\ Source = Target => (res.dist = 0 /\ res.path = <<Source>>)

\* Dijkstra returned a two-edge route that is shorter than the direct edge
C5_Witness ==
    /\ pc = "dijkstra"
    /\ NonNegative(G)
    /\ Len(res.path) = 3
    /\ HasEdge(G, Source, Target)
    /\ res.dist < weight(G, Source, Target)

\* ------------------------------------------------------------------- C7
\* C7: on a connected graph of N nodes with no negative weight, build_mst
\* returns N-1 edges of the graph that connect all N nodes (so without a
\* cycle), the returned total is the sum of their weights, and no spanning
\* tree of the graph is lighter.
C7_MinimumSpanningTree ==
    (pc = "mst" /\ NonNegative(G) /\ Connected(G)) =>
        /\ res.T.nodes = G.nodes
        /\ Edges(res.T) \subseteq Edges(G)
        /\ \A e \in Edges(res.T) : res.T.wt[e] = G.wt[e]
        /\ Cardinality(Edges(res.T)) = Cardinality(G.nodes) - 1
        /\ Edges(res.T) \in SpanningTrees(G)
        /\ res.total_weight = SetWeight(G, Edges(res.T))
        /\ \A S \in SpanningTrees(G) : res.total_weight <= SetWeight(G, S)

\* a spanning tree of a graph that has a strictly heavier spanning tree
C7_Witness ==
    /\ pc = "mst"
    /\ NonNegative(G)
    /\ Connected(G)
    /\ \E S \in SpanningTrees(G) : res.total_weight < SetWeight(G, S)

C2_NegativeCycleReported ==
    (pc = "bellman_ford" /\ Source \in G.nodes /\ Target \in G.nodes
        /\ Source # Target
        /\ \E e \in Edges(G) : IsNegativeEdge(G, e) /\ e[1] \in Reachable(G, Source)) =>
        /\ res.exc = "NetworkXUnbounded"
        /\ res # Returned(Inf, <<>>)

\* ------------------------------------------------------------------- C3
\* C3: dijkstra_shortest_path and bellman_ford_shortest_path fail with an
\* unknown-node error when the source or the target is not in the graph, and
\* do not return the unreachable result.
C3_UnknownNodeReported ==
    (pc \in {"dijkstra", "bellman_ford"}
        /\ (Source \notin G.nodes \/ Target \notin G.nodes)) =>
        /\ res.exc = "NodeNotFound"
        /\ res # Returned(Inf, <<>>)

\* ------------------------------------------------------------------- C6
\* C6: for source and target in the graph, dijkstra_shortest_path (on
\* weights it accepts, none negative) and bellman_ford_shortest_path return
\* the infinite distance with an empty path when the target is unreachable,
\* and return an empty path only then.
C6_EmptyPathIffUnreachable ==
    (/\ pc \in {"dijkstra", "bellman_ford"}
     /\ Source \in G.nodes /\ Target \in G.nodes
     /\ pc = "dijkstra" => NonNegative(G)) =>
        /\ Target \notin Reachable(G, Source) => res = Returned(Inf, <<>>)
        /\ (res.exc = "none" /\ res.path = <<>>) => Target \notin Reachable(G, Source)

\* ------------------------------------------------------------------- C9
\* C9: building the graph from a matrix with a negative cell above the
\* diagonal never completes.
C9_NegativeCellRejected ==
    (\E p \in Pairs : df[p] < 0) => pc = "load"

====
